---------------------------- MODULE Spec2Model ----------------------------
(***************************************************************************)
(* A model of lofty-rs' format detection (Probe), its dispatch to the      *)
(* container readers, and the ID3v2 writer.                                *)
(*                                                                         *)
(* Bytes are the integers 0..255, a stream is a sequence of bytes and a    *)
(* stream position is a 0-based offset into it (byte i of the stream is    *)
(* data[i + 1]).  Option<T> is a sequence of length at most one: <<>> is   *)
(* None and <<x>> is Some(x).  Readers are in-memory cursors and files, so *)
(* no read or seek fails: every io::Result of the probe is Ok.             *)
(***************************************************************************)
EXTENDS Integers, Sequences, FiniteSets, TLC

VARIABLES
    alive,              \* TRUE while a Probe exists (read() consumes it)
    inner,              \* Probe.inner: the reader, [data, pos]
    options,            \* Probe.options: Option<ParseOptions>
    f_ty,               \* Probe.f_ty: Option<FileType>
    ALLOCATION_LIMIT,   \* the thread-local allocation limit
    CUSTOM_RESOLVERS,   \* the process-wide registry, in registration order
    file,               \* the std::fs::File handed to write_id3v2, [data, pos]
    written,            \* the number of write_id3v2 calls made on it
    last                \* what the last operation did (history, not program state)

vars ==
    <<alive, inner, options, f_ty, ALLOCATION_LIMIT, CUSTOM_RESOLVERS, file, written, last>>

--------------------------------------------------------------------------
(* Bounds of the model *)

\* the longest run of junk bytes put in front of a payload
MaxJunk == 4
\* the largest max_junk_bytes a caller sets in ParseOptions
MaxJunkOption == 3
\* the longest ID3v2 tag body of a generated stream
MaxId3Len == 3
\* the number of bytes in front of the entry position of a reader
MaxLead == 1
\* the most custom resolvers registered
MaxResolvers == 2
\* the most frames of a tag handed to the writer
MaxFrames == 1
\* the most write_id3v2 calls on one file
MaxWrites == 2

--------------------------------------------------------------------------
(* Option and sequence helpers *)

None == <<>>
Some(x) == <<x>>
IsSome(o) == Len(o) = 1
Unwrap(o) == o[1]
\* the assignment self.f_ty = f_ty, the fallback to the earlier type lost
Or_overwrite(a, b) == a

\* Option::or
Or(a, b) == IF IsSome(a) THEN a ELSE b

Min(a, b) == IF a < b THEN a ELSE b

\* the bytes of data from offset pos on, at most n of them: what
\* reader.take(n) yields when the reader stands at pos
Take(data, pos, n) ==
    IF pos >= Len(data) THEN <<>>
    ELSE SubSeq(data, pos + 1, Min(Len(data), pos + n))

StartsWith(buf, prefix) ==
    /\ Len(buf) >= Len(prefix)
    /\ SubSeq(buf, 1, Len(prefix)) = prefix

Repeat(b, n) == [i \in 1..n |-> b]

--------------------------------------------------------------------------
(* FileType *)

FT(kind) == [kind |-> kind, id |-> ""]
Custom(c) == [kind |-> "Custom", id |-> c]

Aac == FT("Aac")
Aiff == FT("Aiff")
Ape == FT("Ape")
Flac == FT("Flac")
Mpeg == FT("Mpeg")
Opus == FT("Opus")
Vorbis == FT("Vorbis")
Speex == FT("Speex")
Wav == FT("Wav")
Mp4 == FT("Mp4")
Mpc == FT("Mpc")
WavPack == FT("WavPack")


--------------------------------------------------------------------------
(* Byte strings *)

\* "ID3"
ID3 == <<73, 68, 51>>
\* "MAC"
MAC == <<77, 65, 67>>
\* "fLaC"
fLaC == <<102, 76, 97, 67>>
\* "MPCK"
MPCK == <<77, 80, 67, 75>>
\* "MP+"
MPplus == <<77, 80, 43>>
\* "FORM", "AIFF", "AIFC"
FORM == <<70, 79, 82, 77>>
AIFF_ID == <<65, 73, 70, 70>>
AIFC_ID == <<65, 73, 70, 67>>
\* "RIFF", "WAVE"
RIFF == <<82, 73, 70, 70>>
WAVE == <<87, 65, 86, 69>>
\* "OggS", "vorbis", "OpusHead", "Speex   "
OggS == <<79, 103, 103, 83>>
vorbis_ID == <<118, 111, 114, 98, 105, 115>>
OpusHead == <<79, 112, 117, 115, 72, 101, 97, 100>>
Speex_ID == <<83, 112, 101, 101, 120, 32, 32, 32>>
\* "wvpk"
wvpk == <<119, 118, 112, 107>>
\* "ftyp"
ftyp == <<102, 116, 121, 112>>

--------------------------------------------------------------------------
(* Pure helpers of the detection *)

\* the 11-bit frame sync 1111 1111 111x xxxx
verify_frame_sync(b0, b1) == b0 = 255 /\ b1 \div 32 = 7

\* u32::from_be_bytes(arr).unsynch() for a synchsafe arr (every byte < 128)
unsynch(arr) == arr[1] * 2097152 + arr[2] * 16384 + arr[3] * 128 + arr[4]

\* FileType::quick_type_guess: the magic table, matched in this order on a
\* buffer that is not empty
quick_type_guess(buf) ==
    IF StartsWith(buf, MAC) THEN Some(Ape)
    ELSE IF Len(buf) >= 2 /\ verify_frame_sync(buf[1], buf[2])
    THEN (IF (buf[2] \div 16) % 2 = 1 /\ (buf[2] \div 2) % 4 = 0
          THEN Some(Aac) ELSE Some(Mpeg))
    ELSE IF Len(buf) >= 12 /\ StartsWith(buf, FORM)
    THEN (IF SubSeq(buf, 9, 12) \in {AIFF_ID, AIFC_ID} THEN Some(Aiff) ELSE None)
    ELSE IF Len(buf) >= 36 /\ StartsWith(buf, OggS)
    THEN (IF SubSeq(buf, 30, 35) = vorbis_ID THEN Some(Vorbis)
          ELSE IF SubSeq(buf, 29, 36) = OpusHead THEN Some(Opus)
          ELSE IF SubSeq(buf, 29, 36) = Speex_ID THEN Some(Speex)
          ELSE None)
    ELSE IF StartsWith(buf, fLaC) THEN Some(Flac)
    ELSE IF Len(buf) >= 12 /\ StartsWith(buf, RIFF)
    THEN (IF SubSeq(buf, 9, 12) = WAVE THEN Some(Wav) ELSE None)
    ELSE IF StartsWith(buf, wvpk) THEN Some(WavPack)
    ELSE IF Len(buf) >= 8 /\ SubSeq(buf, 5, 8) = ftyp THEN Some(Mp4)
    ELSE IF StartsWith(buf, MPCK) \/ StartsWith(buf, MPplus) THEN Some(Mpc)
    ELSE None

\* FileTypeGuessResult
Determined(ft) == [tag |-> "Determined", ft |-> Some(ft), id3_len |-> 0]
MaybePrecededById3(n) == [tag |-> "MaybePrecededById3", ft |-> None, id3_len |-> n]
MaybePrecededByJunk == [tag |-> "MaybePrecededByJunk", ft |-> None, id3_len |-> 0]
Undetermined == [tag |-> "Undetermined", ft |-> None, id3_len |-> 0]

\* FileType::from_buffer_inner: the classification of the sniff buffer
from_buffer_inner(buf) ==
    IF buf = <<>> THEN Undetermined
    ELSE LET q == quick_type_guess(buf) IN
         IF IsSome(q) THEN Determined(Unwrap(q))
         ELSE IF Len(buf) >= 10 /\ StartsWith(buf, ID3)
              THEN MaybePrecededById3(unsynch(SubSeq(buf, 7, 10)))
              ELSE MaybePrecededByJunk

\* mpeg::header::search_for_frame_sync on the bytes a reader yields: the
\* offset of the first pair of adjacent bytes that is a frame sync, the pairs
\* taken in stream order from the pair (input[i], input[i + 1])
RECURSIVE search_from(_, _)
search_from(input, i) ==
    IF i + 1 > Len(input) THEN None
    ELSE IF verify_frame_sync(input[i], input[i + 1]) THEN Some(i - 1)
    ELSE search_from(input, i + 1)

\* [found: Option<u64>, consumed: bytes read from the input]: the search reads
\* byte by byte and stops right after the second sync byte, or at the end
search_for_frame_sync(input) ==
    LET r == search_from(input, 1) IN
    [found |-> r,
     consumed |-> IF IsSome(r) THEN Unwrap(r) + 2 ELSE Len(input)]

--------------------------------------------------------------------------
(* ParseOptions *)

DEFAULT_MAX_JUNK_BYTES == 1024
DEFAULT_ALLOCATION_LIMIT == 16 * 1024 * 1024

\* ParseOptions::new (the fields the probe itself reads)
ParseOptions_new ==
    [use_custom_resolvers |-> TRUE,
     max_junk_bytes |-> DEFAULT_MAX_JUNK_BYTES,
     allocation_limit |-> DEFAULT_ALLOCATION_LIMIT]

\* finalize with the default written where the options' own limit belongs
finalize_default(opts, limit) == DEFAULT_ALLOCATION_LIMIT

\* ParseOptions::finalize: the value util::alloc::update_allocation_limit
\* leaves in the thread-local limit (limit is its value before the call)
finalize(opts, limit) == opts.allocation_limit

--------------------------------------------------------------------------
(* The custom resolver registry *)

\* A resolver is [id, guesses]: guesses says whether its guess() returns a
\* type for the sniff buffer it is handed (user code, an input of the model).
resolver_guess(r, buf) == IF r.guesses THEN Some(Custom(r.id)) ELSE None

\* the loop without its early return: every guess() runs, the last Some is kept
iterate_last_match_wins(lock, i, buf, invoked) ==
    LET hits == {j \in i..Len(lock) : IsSome(resolver_guess(lock[j], buf))}
        all == invoked \o [j \in 1..(Len(lock) - i + 1) |-> lock[j + i - 1].id]
    IN  IF hits = {} THEN [ret |-> None, invoked |-> all]
        ELSE [ret |-> resolver_guess(lock[CHOOSE j \in hits : \A k \in hits : k <= j], buf),
              invoked |-> all]

\* for (_, resolve) in lock.iter() { if let ret @ Some(_) = resolve.guess(..) { return Ok(ret) } }
\* [ret, invoked]: invoked lists the resolvers whose guess() was called
RECURSIVE iterate_resolvers(_, _, _, _)
iterate_resolvers(lock, i, buf, invoked) ==
    IF i > Len(lock) THEN [ret |-> None, invoked |-> invoked]
    ELSE LET ret == resolver_guess(lock[i], buf) IN
         IF IsSome(ret)
         THEN [ret |-> ret, invoked |-> Append(invoked, lock[i].id)]
         ELSE iterate_resolvers(lock, i + 1, buf, Append(invoked, lock[i].id))

\* resolve::lookup_resolver: the index of the entry registered under c, 0 if none
lookup_resolver(lock, c) ==
    IF \E i \in 1..Len(lock) : lock[i].id = c
    THEN CHOOSE i \in 1..Len(lock) : lock[i].id = c
    ELSE 0

--------------------------------------------------------------------------
(* Probe::guess_file_type *)

\* the sniff buffer is `[0; 36]`
SNIFF_LEN == 36

\* guess_inner without the seek that follows the sniff
rewind_forgotten(starting_position, cur) == cur

\* self.inner.seek(SeekFrom::Start(starting_position)) once the sniff buffer
\* is filled; cur is the position the read left
rewind_after_sniff(starting_position, cur) == starting_position

\* the seek past the tag body alone, the 10 header bytes left out
position_after_id3_body(pos, id3_len) == pos + id3_len

\* self.inner.seek(SeekFrom::Current(i64::from(10 + id3_len)))
position_after_id3_block(pos, id3_len) == pos + 10 + id3_len

\* guess_inner without the closing seek
seek_back_forgotten(starting_position, cur) == cur

\* "before returning any result for a file type, seek back to the front":
\* self.inner.seek(SeekFrom::Start(starting_position)), cur is the position before
seek_back_to_front(starting_position, cur) == starting_position

\* the version bit tested alone, the layer bits ignored
is_adts_version_bit_only(b) == (b \div 16) % 2 = 1

\* buf[1] & 0b10000 > 0 && buf[1] & 0b110 == 0
is_adts(b) == (b \div 16) % 2 = 1 /\ (b \div 2) % 4 = 0

\* Probe::check_mpeg_or_aac with the reader at pos: [ret, pos, sync] where sync
\* is the offset of the frame sync that was found
check_mpeg_or_aac(data, pos, max_junk_bytes) ==
    LET restricted_reader == Take(data, pos, max_junk_bytes)
        s == search_for_frame_sync(restricted_reader)
        after_search == pos + s.consumed
    IN  IF ~IsSome(s.found)
        THEN [ret |-> None, pos |-> after_search, sync |-> None]
        ELSE LET at == after_search - 2              \* seek(SeekFrom::Current(-2))
                 buf == Take(data, at, 2)            \* read_exact(&mut buf)
             IN  [ret |-> IF is_adts(buf[2]) THEN Some(Aac) ELSE Some(Mpeg),
                  pos |-> at + 2,
                  sync |-> Some(at)]

\* the match on `&ident`, a `[0; 4]` that holds what could be read
ident_of(data, pos) ==
    LET got == Take(data, pos, 4) IN got \o Repeat(0, 4 - Len(got))

\* Probe::guess_inner: [ret, pos, path, invoked, sync]
guess_inner(data, pos, max_junk_bytes, lock) ==
    LET starting_position == pos
        buf == Take(data, pos, SNIFF_LEN)
        sniffed == rewind_after_sniff(starting_position, pos + Len(buf))
        guess == from_buffer_inner(buf)
    IN  CASE guess.tag = "Determined" ->
               [ret |-> guess.ft, pos |-> sniffed, path |-> "Determined",
                invoked |-> <<>>, sync |-> None]
          [] guess.tag = "MaybePrecededById3" ->
               LET after == position_after_id3_block(sniffed, guess.id3_len)
                   ident == ident_of(data, after)
                   \* seek(SeekFrom::Start(position_after_id3_block)), then the match
                   inner_ty ==
                       IF StartsWith(ident, MAC)
                       THEN [ret |-> Some(Ape), pos |-> after, sync |-> None]
                       ELSE IF ident = fLaC
                       THEN [ret |-> Some(Flac), pos |-> after, sync |-> None]
                       ELSE IF ident = MPCK \/ StartsWith(ident, MPplus)
                       THEN [ret |-> Some(Mpc), pos |-> after, sync |-> None]
                       ELSE check_mpeg_or_aac(data, after, max_junk_bytes)
               IN  [ret |-> inner_ty.ret,
                    pos |-> seek_back_to_front(starting_position, inner_ty.pos),
                    path |-> "MaybePrecededById3",
                    invoked |-> <<>>, sync |-> inner_ty.sync]
          [] guess.tag = "MaybePrecededByJunk" ->
               LET r == check_mpeg_or_aac(data, sniffed, max_junk_bytes)
               IN  [ret |-> r.ret,
                    pos |-> seek_back_to_front(starting_position, r.pos),
                    path |-> "MaybePrecededByJunk",
                    invoked |-> <<>>, sync |-> r.sync]
          [] OTHER ->
               LET r == iterate_resolvers(lock, 1, buf, <<>>)
               IN  [ret |-> r.ret, pos |-> sniffed, path |-> "Undetermined",
                    invoked |-> r.invoked, sync |-> None]

\* the max_junk_bytes guess_file_type hands to guess_inner
junk_window(opts) ==
    IF IsSome(opts) THEN Unwrap(opts).max_junk_bytes ELSE DEFAULT_MAX_JUNK_BYTES

--------------------------------------------------------------------------
(* Probe::read *)

\* A u32 as the four bytes of a synchsafe integer (SynchsafeInteger::synch)
synch_bytes(n) ==
    <<(n \div 2097152) % 128, (n \div 16384) % 128, (n \div 128) % 128, n % 128>>

\* the options the container reader is handed:
\* self.options.map_or_else(ParseOptions::default, ParseOptions::finalize)
read_options(opts) == IF IsSome(opts) THEN Unwrap(opts) ELSE ParseOptions_new

\* read() with the options unwrapped and finalize never called
limit_never_updated(opts, limit) == limit

\* the thread-local limit after that line
limit_after_options(opts, limit) ==
    IF IsSome(opts) THEN finalize(Unwrap(opts), limit) ELSE limit

\* the test of use_custom_resolvers with its negation lost
custom_refused_inverted(o) == o.use_custom_resolvers

\* `if !options.use_custom_resolvers { err!(UnknownFormat) }`
custom_refused(o) == ~o.use_custom_resolvers

\* The ID3v2.4 frame that follows the tag header at pos: its declared payload,
\* the frame size less the data length indicator (4) and the encryption
\* method byte (1) that its flags announce
declared_payload(data, pos) ==
    LET frame == Take(data, pos + 10, 10)
        size == unsynch(SubSeq(frame, 5, 8))
        encrypted == (frame[10] \div 4) % 2 = 1
        indicator == frame[10] % 2 = 1
    IN  [encrypted |-> encrypted,
         len |-> size - (IF indicator THEN 4 ELSE 0) - (IF encrypted THEN 1 ELSE 0)]

\* MpegFile::read_from as far as the allocation limit decides it: an encrypted
\* frame is read into memory at once, through the bounded allocator
MpegFile_read_from(data, pos, limit) ==
    IF StartsWith(Take(data, pos, 10), ID3) /\ Len(Take(data, pos + 10, 10)) = 10
    THEN LET f == declared_payload(data, pos) IN
         IF f.encrypted /\ f.len > limit THEN "TooMuchData" ELSE "Ok"
    ELSE "Ok"

\* the container reader of a built-in type: [reader, result]
container_read(ft, data, pos, limit) ==
    IF ft = Mpeg
    THEN [reader |-> [of |-> "container", name |-> "Mpeg"],
          result |-> MpegFile_read_from(data, pos, limit)]
    ELSE [reader |-> [of |-> "container", name |-> ft.kind], result |-> "Unmodelled"]

\* Probe::read: [result, limit, readers, lookups] where limit is the
\* thread-local limit from the second statement on, readers the container
\* readers and resolver readers that ran, lookups the registry lookups
read(reader, opts, ty, limit, lock) ==
    LET o == read_options(opts)
        lim == limit_after_options(opts, limit)
    IN  IF ~IsSome(ty)
        THEN [result |-> "UnknownFormat", limit |-> lim, readers |-> <<>>, lookups |-> 0]
        ELSE LET f_type == Unwrap(ty) IN
             IF f_type.kind # "Custom"
             THEN LET r == container_read(f_type, reader.data, reader.pos, lim)
                  IN  [result |-> r.result, limit |-> lim,
                       readers |-> <<r.reader>>, lookups |-> 0]
             ELSE IF custom_refused(o)
             THEN [result |-> "UnknownFormat", limit |-> lim, readers |-> <<>>, lookups |-> 0]
             ELSE LET i == lookup_resolver(lock, f_type.id) IN
                  IF i = 0
                  THEN [result |-> "panic", limit |-> lim, readers |-> <<>>, lookups |-> 1]
                  ELSE [result |-> "Unmodelled", limit |-> lim,
                        readers |-> <<[of |-> "resolver", name |-> lock[i].id]>>,
                        lookups |-> 1]

--------------------------------------------------------------------------
(* The streams, options and types the model draws from *)

\* the start of an MPEG or ADTS frame whose second byte is b
FrameStart(b) == <<255, b, 80, 196>>

\* FF FB, FF FA, FF E3, FF F3 (MPEG); FF F1, FF F9 (ADTS)
SyncSeconds == {251, 250, 227, 243, 241, 249}

\* the 10 bytes of an ID3v2.4 header that declares a tag body of n bytes
Id3Header(n) == ID3 \o <<4, 0, 0>> \o synch_bytes(n)

\* tag bodies of n bytes: filler, and filler behind a frame sync look-alike
Id3Bodies(n) ==
    {Repeat(65, n)} \cup (IF n >= 2 THEN {<<255, 251>> \o Repeat(65, n - 2)} ELSE {})

\* nothing, an ID3v2 block, or a header whose declared size ends past the stream
Preludes ==
    {<<>>} \cup {Id3Header(128)}
    \cup UNION {{Id3Header(n) \o b : b \in Id3Bodies(n)} : n \in 0..MaxId3Len}

\* an APE stream longer than the sniff buffer, "MAC" again right behind it
LongApe == MAC \o Repeat(32, SNIFF_LEN - 3) \o MAC

Payloads ==
    {FrameStart(b) : b \in SyncSeconds}
    \cup {MAC, MAC \o <<32, 0>>, fLaC, MPCK, MPplus \o <<7>>,
          RIFF \o <<0, 0, 0, 0>> \o WAVE, <<0, 0, 0, 24>> \o ftyp,
          <<>>, <<255>>, <<18, 52>>, LongApe}

\* runs of NUL bytes, and of spaces
JunkRuns ==
    {Repeat(0, k) : k \in 0..MaxJunk} \cup {Repeat(32, k) : k \in {1, MaxJunk}}

\* a reader over a generated stream stands right behind the stream's lead bytes
DetectReaders ==
    {[data |-> Repeat(122, l) \o pre \o junk \o pay, pos |-> l] :
        l \in 0..MaxLead, pre \in Preludes, junk \in JunkRuns, pay \in Payloads}

OptionValues(resolve, junk, limits) ==
    {[use_custom_resolvers |-> u, max_junk_bytes |-> m, allocation_limit |-> a] :
        u \in resolve, m \in junk, a \in limits}

ResolverIds == {"a", "b"}
Resolvers == {[id |-> i, guesses |-> g] : i \in ResolverIds, g \in BOOLEAN}

\* the types a caller asserts: built-in ones, and Custom ones registered or not
AssertedTypes == {Mpeg, Wav, Custom("a"), Custom("zz")}

--------------------------------------------------------------------------
(* State, and the history variable `last` *)

NoReader == [data |-> <<>>, pos |-> 0]

NoTag == [flags |-> [footer |-> FALSE, experimental |-> FALSE, crc |-> FALSE],
          frames |-> <<>>]

NoOp ==
    [op |-> "none",
     P0 |-> 0,              \* reader position at entry
     f_ty0 |-> None,        \* the probe's type at entry
     options0 |-> None,     \* the probe's options at entry
     limit0 |-> 0,          \* the thread-local limit at entry
     ret |-> None,          \* what guess_inner returned
     path |-> "",           \* the classification guess_inner acted on
     sync |-> None,         \* the offset of the frame sync the search found
     guessed |-> <<>>,      \* the resolvers whose guess() ran
     readers |-> <<>>,      \* the container and resolver readers that ran
     lookups |-> 0,         \* registry lookups
     limit |-> 0,           \* the thread-local limit the readers ran under
     result |-> "",         \* Ok, or the error kind, or panic
     streak |-> 0,          \* guess_file_type calls in a row, counted to 2
     file0 |-> NoReader,    \* write_id3v2: the file at entry
     tag |-> NoTag,         \* write_id3v2: the tag at entry
     footer |-> FALSE,      \* write_id3v2: tag.flags.footer on return
     block |-> <<>>,        \* write_id3v2: what create_tag returned
     order |-> ""]          \* write_id3v2: the chunk writer's byte order

\* Probe::new
New(reader) ==
    /\ ~alive
    /\ alive' = TRUE
    /\ inner' = reader
    /\ options' = None
    /\ f_ty' = None
    /\ last' = [NoOp EXCEPT !.op = "new"]
    /\ UNCHANGED <<ALLOCATION_LIMIT, CUSTOM_RESOLVERS, file, written>>

\* Probe::with_file_type
WithFileType(reader, file_type) ==
    /\ ~alive
    /\ alive' = TRUE
    /\ inner' = reader
    /\ options' = None
    /\ f_ty' = Some(file_type)
    /\ last' = [NoOp EXCEPT !.op = "with_file_type"]
    /\ UNCHANGED <<ALLOCATION_LIMIT, CUSTOM_RESOLVERS, file, written>>

\* Probe::open: the type is what FileType::from_path makes of the extension
Open(reader, from_path) ==
    /\ ~alive
    /\ alive' = TRUE
    /\ inner' = reader
    /\ options' = None
    /\ f_ty' = from_path
    /\ last' = [NoOp EXCEPT !.op = "open"]
    /\ UNCHANGED <<ALLOCATION_LIMIT, CUSTOM_RESOLVERS, file, written>>

\* Probe::set_file_type
SetFileType(file_type) ==
    /\ alive
    /\ f_ty' = Some(file_type)
    /\ last' = [NoOp EXCEPT !.op = "set_file_type"]
    /\ UNCHANGED <<alive, inner, options, ALLOCATION_LIMIT, CUSTOM_RESOLVERS, file, written>>

\* Probe::options
Options(o) ==
    /\ alive
    /\ options' = Some(o)
    /\ last' = [NoOp EXCEPT !.op = "options"]
    /\ UNCHANGED <<alive, inner, f_ty, ALLOCATION_LIMIT, CUSTOM_RESOLVERS, file, written>>

\* Probe::guess_file_type
GuessFileType ==
    /\ alive
    /\ LET g == guess_inner(inner.data, inner.pos, junk_window(options), CUSTOM_RESOLVERS)
       IN  /\ inner' = [inner EXCEPT !.pos = g.pos]
           /\ f_ty' = Or(g.ret, f_ty)
           /\ last' = [NoOp EXCEPT !.op = "guess_file_type",
                                   !.P0 = inner.pos,
                                   !.f_ty0 = f_ty,
                                   !.options0 = options,
                                   !.limit0 = ALLOCATION_LIMIT,
                                   !.limit = ALLOCATION_LIMIT,
                                   !.ret = g.ret,
                                   !.path = g.path,
                                   !.sync = g.sync,
                                   !.guessed = g.invoked,
                                   !.result = "Ok",
                                   !.streak = IF last.op = "guess_file_type" THEN 2 ELSE 1]
    /\ UNCHANGED <<alive, options, ALLOCATION_LIMIT, CUSTOM_RESOLVERS, file, written>>

\* Probe::read, which consumes the probe
Read ==
    /\ alive
    /\ LET r == read(inner, options, f_ty, ALLOCATION_LIMIT, CUSTOM_RESOLVERS)
       IN  /\ ALLOCATION_LIMIT' = r.limit
           /\ last' = [NoOp EXCEPT !.op = "read",
                                   !.P0 = inner.pos,
                                   !.f_ty0 = f_ty,
                                   !.options0 = options,
                                   !.limit0 = ALLOCATION_LIMIT,
                                   !.limit = r.limit,
                                   !.readers = r.readers,
                                   !.lookups = r.lookups,
                                   !.result = r.result]
    /\ alive' = FALSE
    /\ UNCHANGED <<inner, options, f_ty, CUSTOM_RESOLVERS, file, written>>

\* resolve::register_custom_resolver
RegisterCustomResolver(r) ==
    /\ Len(CUSTOM_RESOLVERS) < MaxResolvers
    /\ \A i \in 1..Len(CUSTOM_RESOLVERS) : CUSTOM_RESOLVERS[i].id # r.id
    /\ CUSTOM_RESOLVERS' = Append(CUSTOM_RESOLVERS, r)
    /\ last' = [NoOp EXCEPT !.op = "register_custom_resolver"]
    /\ UNCHANGED <<alive, inner, options, f_ty, ALLOCATION_LIMIT, file, written>>

--------------------------------------------------------------------------
(* The probe's life: construction, configuration, detection, read *)

\* the fake MP3 of the allocation limit test: an ID3v2.4 tag that holds one
\* encrypted SMTH frame of frame_size payload bytes, and the start of a frame
create_encrypted_frame(size) ==
    <<83, 77, 84, 72>> \o synch_bytes(size + 5) \o <<0, 5>>
    \o Repeat(0, 5) \o Repeat(0, size)

create_fake_mp3(frame_size) ==
    ID3 \o <<4, 0, 0>> \o synch_bytes(frame_size + 5 + 10)
    \o create_encrypted_frame(frame_size)
    \o <<255, 251, 80, 196, 0, 3, 192, 0, 1, 164, 0, 0, 0, 32, 0, 0, 52, 128, 0, 0, 4>>

\* the payload sizes of the test, and the two around the limit it sets
FrameSizes == {40, 50, 51, 60}

ProbeReaders ==
    {[data |-> create_fake_mp3(n), pos |-> 0] : n \in FrameSizes}
    \cup {[data |-> d, pos |-> 0] :
            d \in {<<>>, MAC, FrameStart(251), Id3Header(0) \o fLaC, <<18, 52>>}}

ProbeOptions ==
    OptionValues(BOOLEAN, {DEFAULT_MAX_JUNK_BYTES}, {50, DEFAULT_ALLOCATION_LIMIT})

\* what the extension of a path gives: no type, or a built-in one
PathTypes == {None, Some(Mpeg), Some(Flac)}

Init ==
    /\ alive = FALSE
    /\ inner = NoReader
    /\ options = None
    /\ f_ty = None
    /\ ALLOCATION_LIMIT = DEFAULT_ALLOCATION_LIMIT
    /\ CUSTOM_RESOLVERS = <<>>
    /\ file = NoReader
    /\ written = 0
    /\ last = NoOp

Next ==
    \/ \E reader \in ProbeReaders : New(reader)
    \/ \E reader \in ProbeReaders, t \in AssertedTypes : WithFileType(reader, t)
    \/ \E reader \in ProbeReaders, t \in PathTypes : Open(reader, t)
    \/ \E t \in AssertedTypes : SetFileType(t)
    \/ \E o \in ProbeOptions : Options(o)
    \/ GuessFileType
    \/ Read
    \/ \E r \in Resolvers : RegisterCustomResolver(r)

Spec == Init /\ [][Next]_vars

--------------------------------------------------------------------------
(* Detection on its own: every generated stream, under every junk window *)

DetectOptions ==
    OptionValues({TRUE}, (0..MaxJunkOption) \cup {DEFAULT_MAX_JUNK_BYTES},
                 {DEFAULT_ALLOCATION_LIMIT})

\* a reader at the end of its stream has nothing to sniff: the registry decides
DetectRegistries ==
    {<<>>, <<[id |-> "a", guesses |-> TRUE]>>,
     <<[id |-> "b", guesses |-> FALSE], [id |-> "a", guesses |-> TRUE]>>}

InitDetect ==
    /\ alive = TRUE
    /\ \/ /\ inner \in DetectReaders
          /\ CUSTOM_RESOLVERS = <<>>
       \/ /\ \E d \in {<<>>, MAC, <<122>> \o FrameStart(251)} :
                inner = [data |-> d, pos |-> Len(d)]
          /\ CUSTOM_RESOLVERS \in DetectRegistries
    /\ options \in {None} \cup {Some(o) : o \in DetectOptions}
    /\ f_ty \in {None, Some(Wav)}
    /\ ALLOCATION_LIMIT = DEFAULT_ALLOCATION_LIMIT
    /\ file = NoReader
    /\ written = 0
    /\ last = NoOp

NextDetect == GuessFileType

SpecDetect == InitDetect /\ [][NextDetect]_vars

--------------------------------------------------------------------------
(* Claims about the probe *)

GuessDone == last.op = "guess_file_type"
ReadDone == last.op = "read"

\* the stream from the entry position of the last operation on
EntryStream == Take(inner.data, last.P0, Len(inner.data))

\* C1: when guess_file_type returns, the reader stands where it stood at entry,
\* whichever way the type was or was not found.
C1_PositionRestored == GuessDone => inner.pos = last.P0

\* a frame sync found behind an ID3v2 block, the reader not at offset 0
C1_Witness ==
    /\ GuessDone
    /\ last.P0 > 0
    /\ last.path = "MaybePrecededById3"
    /\ IsSome(last.sync)
    /\ Unwrap(last.sync) > last.P0 + 10

\* the resolvers a guess or a read invoked: guess() calls and read_from() calls
ResolversInvoked ==
    Len(last.guessed)
        + Cardinality({i \in 1..Len(last.readers) : last.readers[i].of = "resolver"})

\* C2: on a Probe whose options have use_custom_resolvers = false, neither
\* guess_file_type nor read invokes an entry of the custom resolver registry.
C2_ResolversNeedOptIn ==
    (/\ GuessDone \/ ReadDone
     /\ IsSome(last.options0)
     /\ ~Unwrap(last.options0).use_custom_resolvers)
    => ResolversInvoked = 0

\* C3 as stated: every read runs under the allocation_limit of the options it
\* runs with, the defaults included.
C3_LimitIsTheReadsOwn ==
    ReadDone => last.limit = read_options(last.options0).allocation_limit

\* C3 as amended: a read on a Probe that was given options runs under their
\* allocation_limit; a read on a Probe without options leaves the thread-local
\* limit as it found it.
C3_LimitSetByGivenOptions ==
    ReadDone =>
        IF IsSome(last.options0)
        THEN last.limit = Unwrap(last.options0).allocation_limit
             /\ ALLOCATION_LIMIT = last.limit
        ELSE last.limit = last.limit0 /\ ALLOCATION_LIMIT = last.limit0

\* a container reader ran under a limit of 50 that this read's options set
C3_Witness ==
    /\ ReadDone
    /\ IsSome(last.options0)
    /\ last.limit0 = DEFAULT_ALLOCATION_LIMIT
    /\ last.limit = 50
    /\ last.readers = <<[of |-> "container", name |-> "Mpeg"]>>

\* the read was of the fake MP3 whose encrypted frame declares n payload bytes
FakeMp3Read(n) ==
    /\ ReadDone
    /\ last.f_ty0 = Some(Mpeg)
    /\ last.P0 = 0
    /\ inner.data = create_fake_mp3(n)

\* C4 as stated: the read fails with TooMuchData when the declared length
\* exceeds the allocation_limit of the options the read runs with (the defaults
\* when none were given), and succeeds when it does not.
C4_LimitOfTheReadsOptions ==
    \A n \in FrameSizes :
        FakeMp3Read(n) =>
            IF n > read_options(last.options0).allocation_limit
            THEN last.result = "TooMuchData"
            ELSE last.result = "Ok"

\* C4 as amended: the same, for a Probe that was given options.
C4_LimitOfGivenOptions ==
    \A n \in FrameSizes :
        (FakeMp3Read(n) /\ IsSome(last.options0)) =>
            IF n > Unwrap(last.options0).allocation_limit
            THEN last.result = "TooMuchData"
            ELSE last.result = "Ok"

\* limit 50, declared payload 60: TooMuchData
C4_Witness ==
    /\ FakeMp3Read(60)
    /\ IsSome(last.options0)
    /\ Unwrap(last.options0).allocation_limit = 50
    /\ last.result = "TooMuchData"

RECURSIVE LeadingZeros(_)
LeadingZeros(seq) ==
    IF seq # <<>> /\ seq[1] = 0 THEN 1 + LeadingZeros(Tail(seq)) ELSE 0

\* C5: a stream that starts with a frame sync is given the same type with k
\* zero bytes in front of it, for every k from 0 to max_junk_bytes.
C5_ZeroPrefixKeepsType ==
    LET k == LeadingZeros(EntryStream)
        stream == SubSeq(EntryStream, k + 1, Len(EntryStream))
        window == junk_window(last.options0)
    IN  (/\ GuessDone
         /\ Len(stream) >= 2
         /\ verify_frame_sync(stream[1], stream[2])
         /\ k <= window)
        => last.ret = guess_inner(stream, 0, window, CUSTOM_RESOLVERS).ret

\* the value of the synchsafe size field of the ID3v2 header at the entry position
EntryId3Size ==
    EntryStream[7] * 128 * 128 * 128 + EntryStream[8] * 128 * 128
        + EntryStream[9] * 128 + EntryStream[10]

\* the offsets from `from` on at which a frame sync lies wholly inside the
\* first `window` bytes
SyncOffsets(from, window) ==
    {i \in from..(Len(inner.data) - 2) :
        /\ i + 2 <= from + window
        /\ inner.data[i + 1] = 255
        /\ inner.data[i + 2] >= 224}

\* bit 0x10 set and bits 0x06 clear
AdtsSecondByte(b) == b % 32 >= 16 /\ b % 8 < 2

\* what a sync search that starts at `from` is to report
SearchVerdict(from, window) ==
    LET hits == SyncOffsets(from, window) IN
    IF hits = {} THEN None
    ELSE LET first == CHOOSE i \in hits : \A j \in hits : i <= j
         IN  IF AdtsSecondByte(inner.data[first + 2]) THEN Some(Aac) ELSE Some(Mpeg)

\* C6: behind an ID3v2 header whose size decodes to n, the bytes at offset
\* 10 + n decide: MAC.. is Ape, fLaC is Flac, MPCK and MP+. are Mpc, and
\* otherwise the sync search that starts at offset 10 + n decides.
C6_TypeBehindId3 ==
    (/\ GuessDone
     /\ Len(EntryStream) >= 10
     /\ StartsWith(EntryStream, ID3))
    => LET off == last.P0 + 10 + EntryId3Size
           at == Take(inner.data, off, 4)
       IN  IF StartsWith(at, MAC) THEN last.ret = Some(Ape)
           ELSE IF at = fLaC THEN last.ret = Some(Flac)
           ELSE IF at = MPCK \/ StartsWith(at, MPplus) THEN last.ret = Some(Mpc)
           ELSE last.ret = SearchVerdict(off, junk_window(last.options0))

\* an MPEG frame behind an ID3v2 block with a body and junk that hold no sync
C6_Witness ==
    /\ GuessDone
    /\ Len(EntryStream) >= 10
    /\ StartsWith(EntryStream, ID3)
    /\ EntryId3Size > 0
    /\ IsSome(last.sync)
    /\ Unwrap(last.sync) > last.P0 + 10 + EntryId3Size
    /\ last.ret = Some(Mpeg)

\* C7: when the sync search finds a frame sync, the second sync byte alone
\* decides: Aac if bit 0x10 is set and bits 0x06 are clear, Mpeg otherwise;
\* FF F1 and FF F9 are Aac, FF FB and FF FA are Mpeg.
C7_SecondSyncByteDecides ==
    (GuessDone /\ IsSome(last.sync)) =>
        LET b == inner.data[Unwrap(last.sync) + 2] IN
        /\ inner.data[Unwrap(last.sync) + 1] = 255
        /\ last.ret = IF AdtsSecondByte(b) THEN Some(Aac) ELSE Some(Mpeg)
        /\ b \in {241, 249} => last.ret = Some(Aac)
        /\ b \in {251, 250} => last.ret = Some(Mpeg)

\* the search found FF F9 behind junk and reported Aac
C7_Witness ==
    /\ GuessDone
    /\ IsSome(last.sync)
    /\ Unwrap(last.sync) > last.P0
    /\ inner.data[Unwrap(last.sync) + 2] = 249
    /\ last.ret = Some(Aac)

\* C8: read returns UnknownFormat, with no panic, no container reader and no
\* registry lookup, when the Probe has no type and when its type is Custom
\* while its options have use_custom_resolvers = false.
C8_UnknownFormat ==
    (/\ ReadDone
     /\ \/ last.f_ty0 = None
        \/ /\ IsSome(last.f_ty0)
           /\ Unwrap(last.f_ty0).kind = "Custom"
           /\ IsSome(last.options0)
           /\ ~Unwrap(last.options0).use_custom_resolvers)
    => /\ last.result = "UnknownFormat"
       /\ last.readers = <<>>
       /\ last.lookups = 0

\* a Custom type nobody registered, refused without a lookup
C8_Witness ==
    /\ ReadDone
    /\ last.f_ty0 = Some(Custom("zz"))
    /\ IsSome(last.options0)
    /\ ~Unwrap(last.options0).use_custom_resolvers
    /\ last.result = "UnknownFormat"

\* C9: guess_file_type applied twice in a row leaves the type and the reader
\* position that applying it once left (the second call's entry values).
C9_GuessIdempotent ==
    (GuessDone /\ last.streak = 2) => f_ty = last.f_ty0 /\ inner.pos = last.P0

\* a second guess in a row on a probe whose first guess replaced its type
C9_Witness ==
    /\ GuessDone
    /\ last.streak = 2
    /\ last.P0 > 0
    /\ IsSome(last.ret)
    /\ f_ty # Some(Wav)

\* the positions of the registry, in registration order, whose guess() returns
\* a type
Guessers == {i \in 1..Len(CUSTOM_RESOLVERS) : CUSTOM_RESOLVERS[i].guesses}

C17_TypeKeptUnlessDetected ==
    GuessDone =>
        IF IsSome(last.ret) THEN f_ty = last.ret ELSE f_ty = last.f_ty0

\* an APE stream opened under a path that said FLAC
C17_Witness ==
    /\ GuessDone
    /\ last.f_ty0 = Some(Flac)
    /\ last.ret = Some(Ape)
    /\ f_ty = Some(Ape)

--------------------------------------------------------------------------
(* The ID3v2 writer *)

\* "3DI", "ID3 ", "id3 "
FOOTER_ID == <<51, 68, 73>>
ID3_CHUNK == <<73, 68, 51, 32>>
id3_CHUNK == <<105, 100, 51, 32>>

RECURSIVE Concat(_)
Concat(seqs) == IF seqs = <<>> THEN <<>> ELSE Head(seqs) \o Concat(Tail(seqs))

\* the bytes of seq with those at offsets at..at + Len(bytes) - 1 overwritten
Overwrite(seq, at, bytes) ==
    [i \in 1..Len(seq) |->
        IF i > at /\ i <= at + Len(bytes) THEN bytes[i - at] ELSE seq[i]]

\* write_u32::<BigEndian> and write_u32::<LittleEndian>
u32_bytes(n, order) ==
    LET be == <<(n \div 16777216) % 256, (n \div 65536) % 256, (n \div 256) % 256, n % 256>>
    IN  IF order = "BigEndian" THEN be ELSE <<be[4], be[3], be[2], be[1]>>

u32_value(b, order) ==
    IF order = "BigEndian"
    THEN b[1] * 16777216 + b[2] * 65536 + b[3] * 256 + b[4]
    ELSE b[4] * 16777216 + b[3] * 65536 + b[2] * 256 + b[1]

\* a frame of an ID3v2.4 tag as frame::create_items writes it: the id, the
\* synchsafe size of the value, two flag bytes, the value
frame_bytes(f) == f.id \o synch_bytes(Len(f.value)) \o <<0, 0>> \o f.value

\* frame::create_items: the frames in the order of the iterator
create_items(frames) == Concat([i \in 1..Len(frames) |-> frame_bytes(frames[i])])

\* create_tag_header (without the id3v2_restrictions feature): the 10 header
\* bytes with a size of 0, and the 6 bytes of an extended header when crc is set
create_tag_header(flags) ==
    LET extended_header == flags.crc
        tag_flags == (IF flags.footer THEN 16 ELSE 0)
                     + (IF flags.experimental THEN 32 ELSE 0)
                     + (IF extended_header THEN 64 ELSE 0)
        header == ID3 \o <<4, 0>> \o <<tag_flags>> \o u32_bytes(0, "BigEndian")
        size == 6
        ext_flags == 0
    IN  IF extended_header
        THEN Overwrite(header \o Repeat(0, 6), 10, synch_bytes(size) \o <<1, ext_flags>>)
        ELSE header

\* the seven bytes read from offset 0 of the block, the seek to 3 left out
header_read_from_start(id3v2) == SubSeq(id3v2, 1, 7)

\* id3v2.seek(SeekFrom::Start(3)); id3v2.read_exact(&mut header_without_identifier)
header_without_identifier(id3v2) == SubSeq(id3v2, 4, 10)

\* the test for a tag without frames, never true
frames_never_missing(tag) == FALSE

\* peek.peek().is_none()
no_frames(tag) == tag.frames = <<>>

\* create_tag
create_tag(tag) ==
    IF no_frames(tag) THEN <<>>
    ELSE LET has_footer == tag.flags.footer
             header == create_tag_header(tag.flags)
             header_len == Len(header)
             with_items == header \o create_items(tag.frames)
             len == Len(with_items) - header_len
             id3v2 == Overwrite(with_items, 6, synch_bytes(len))
         IN  IF has_footer
             THEN id3v2 \o FOOTER_ID \o header_without_identifier(id3v2)
             ELSE id3v2

\* the crc flag as the ID3v2.4 header parser reads it back from a block: header
\* bit 0x40 announces an extended header, whose sixth byte holds the flags, crc
\* being bit 0x20 of them
parsed_crc_flag(block) ==
    /\ Len(block) >= 16
    /\ (block[6] \div 64) % 2 = 1
    /\ (block[16] \div 32) % 2 = 1

\* id3::find_id3v2(data, false): the position behind the ID3v2 block that
\* starts at pos, its footer included, or pos when none starts there
find_id3v2(data, pos) ==
    LET header == Take(data, pos, 10) IN
    IF Len(header) = 10 /\ StartsWith(header, ID3)
    THEN pos + 10 + unsynch(SubSeq(header, 7, 10))
         + (IF (header[6] \div 16) % 2 = 1 THEN 10 ELSE 0)
    ELSE pos

\* the chunks of a RIFF or FORM file from offset at on, as [start, size]: the
\* offset of the chunk's id and its declared size, the id3 chunk sought
RECURSIVE find_id3_chunk(_, _, _)
find_id3_chunk(data, at, order) ==
    IF at + 8 > Len(data) THEN None
    ELSE LET fourcc == Take(data, at, 4)
             size == u32_value(Take(data, at + 4, 4), order)
         IN  IF fourcc \in {ID3_CHUNK, id3_CHUNK}
             THEN Some([start |-> at, size |-> size])
             ELSE find_id3_chunk(data, at + 8 + size + (size % 2), order)

\* chunk_file::write_to_chunk_file::<B>: the old ID3 chunk is cut out, the new
\* one is appended (an odd one padded) and the outer size is written anew
write_to_chunk_file(f, tag_bytes, order) ==
    LET old == find_id3_chunk(f.data, f.pos + 12, order)
        cut == IF IsSome(old)
               THEN LET c == Unwrap(old)
                        stop == c.start + 8 + c.size + (c.size % 2)
                    IN  SubSeq(f.data, 1, c.start)
                        \o Take(f.data, stop, Len(f.data))
               ELSE f.data
        chunk == ID3_CHUNK \o u32_bytes(Len(tag_bytes), order) \o tag_bytes
                 \o (IF Len(tag_bytes) % 2 = 1 THEN <<0>> ELSE <<>>)
        grown == cut \o chunk
    IN  IF tag_bytes = <<>>
        THEN [data |-> cut, pos |-> Len(cut)]
        ELSE [data |-> Overwrite(grown, 4, u32_bytes(Len(grown) - 8, order)), pos |-> 8]

\* the match with a first arm that lets every type through to the splice
placement_accepts_all(file_type) == "prepend"

\* the match with the type parameters of the WAV and AIFF arms exchanged
placement_orders_swapped(file_type) ==
    IF file_type \in {Some(Ape), Some(Mpeg)} THEN "prepend"
    ELSE IF file_type = Some(Wav) THEN "BigEndian"
    ELSE IF file_type = Some(Aiff) THEN "LittleEndian"
    ELSE "UnsupportedTag"

\* the match on the detected type: "prepend", a byte order, or "UnsupportedTag"
placement(file_type) ==
    IF file_type \in {Some(Ape), Some(Mpeg)} THEN "prepend"
    ELSE IF file_type = Some(Wav) THEN "LittleEndian"
    ELSE IF file_type = Some(Aiff) THEN "BigEndian"
    ELSE "UnsupportedTag"

\* the rewrite of the file: the new block spliced in front of what follows
\* the old one, written from offset 0 to a file cut to length 0
splice_in_front(f, id3v2) ==
    LET after_old == find_id3v2(f.data, f.pos)
        file_bytes == Take(f.data, after_old, Len(f.data))
        spliced == id3v2 \o file_bytes
    IN  [data |-> spliced, pos |-> Len(spliced)]

\* the WAV and AIFF arms without their first statement
footer_kept(tag) == tag

\* tag.flags.footer = false
clear_footer(tag) == [tag EXCEPT !.flags.footer = FALSE]

\* write_id3v2 from the match on the detected type on, g being what the
\* probe's guess_file_type returned and where it left the file
write_detected(f, tag, g) ==
    LET file_type == Or(g.ret, None)
        data == [f EXCEPT !.pos = g.pos]
        where == placement(file_type)
        bare == clear_footer(tag)
    IN  CASE where = "prepend" ->
               [result |-> "Ok", file |-> splice_in_front(data, create_tag(tag)),
                footer |-> tag.flags.footer, block |-> create_tag(tag),
                order |-> "", ret |-> file_type]
          [] where \in {"LittleEndian", "BigEndian"} ->
               [result |-> "Ok",
                file |-> write_to_chunk_file(data, create_tag(bare), where),
                footer |-> bare.flags.footer, block |-> create_tag(bare),
                order |-> where, ret |-> file_type]
          [] OTHER ->
               [result |-> "UnsupportedTag", file |-> data,
                footer |-> tag.flags.footer, block |-> <<>>,
                order |-> "", ret |-> file_type]

\* write_id3v2: [result, file, footer, block, order, ret]
write_id3v2(f, tag, lock) ==
    write_detected(f, tag, guess_inner(f.data, f.pos, DEFAULT_MAX_JUNK_BYTES, lock))

--------------------------------------------------------------------------
(* Writing tags to files *)

\* TIT2 "Hi" and TALB "a" in UTF-8
FramePool ==
    <<[id |-> <<84, 73, 84, 50>>, value |-> <<3, 72, 105>>],
      [id |-> <<84, 65, 76, 66>>, value |-> <<3, 97>>]>>

Tags ==
    {[flags |-> [footer |-> ft, experimental |-> e, crc |-> c],
      frames |-> [i \in 1..n |-> FramePool[((i - 1) % 2) + 1]]] :
        ft \in BOOLEAN, e \in BOOLEAN, c \in BOOLEAN, n \in 0..MaxFrames}

\* what follows the frame start in the audio of a generated file
AudioTail == <<0, 3, 192, 0, 1, 164, 0, 9>>

\* an ID3v2.4 block with a footer around a body of two bytes
FooteredBlock ==
    ID3 \o <<4, 0, 16>> \o synch_bytes(2) \o <<65, 66>>
    \o FOOTER_ID \o <<4, 0, 16>> \o synch_bytes(2)

\* a chunk of two payload bytes
Chunk(fourcc, order) == fourcc \o u32_bytes(2, order) \o <<7, 8>>

\* "fmt ", "COMM"
fmt_ID == <<102, 109, 116, 32>>
COMM_ID == <<67, 79, 77, 77>>

WavBytes(chunks) == RIFF \o u32_bytes(4 + Len(chunks), "LittleEndian") \o WAVE \o chunks
AiffBytes(chunks) == FORM \o u32_bytes(4 + Len(chunks), "BigEndian") \o AIFF_ID \o chunks

WriteFiles ==
    {pre \o audio \o AudioTail :
        pre \in {<<>>, Id3Header(3) \o <<65, 255, 251>>, FooteredBlock},
        audio \in {FrameStart(251), FrameStart(241), MAC \o <<32>>}}
    \cup {fLaC \o AudioTail, <<18, 52>> \o AudioTail, <<>>,
          WavBytes(Chunk(fmt_ID, "LittleEndian")),
          WavBytes(Chunk(ID3_CHUNK, "LittleEndian") \o Chunk(fmt_ID, "LittleEndian")),
          AiffBytes(Chunk(COMM_ID, "BigEndian")),
          AiffBytes(Chunk(COMM_ID, "BigEndian") \o Chunk(ID3_CHUNK, "BigEndian"))}

\* write_id3v2 on the file as it stands
WriteId3v2(tag) ==
    /\ written < MaxWrites
    /\ written' = written + 1
    /\ \E w \in {write_id3v2(file, tag, CUSTOM_RESOLVERS)} :
       /\ file' = w.file
       /\ last' = [NoOp EXCEPT !.op = "write_id3v2",
                               !.P0 = file.pos,
                               !.file0 = file,
                               !.tag = tag,
                               !.footer = w.footer,
                               !.block = w.block,
                               !.order = w.order,
                               !.ret = w.ret,
                               !.result = w.result]
    /\ UNCHANGED <<alive, inner, options, f_ty, ALLOCATION_LIMIT, CUSTOM_RESOLVERS>>

\* the caller's file.rewind() between two writes
Rewind ==
    /\ file.pos # 0
    /\ file' = [file EXCEPT !.pos = 0]
    /\ last' = [NoOp EXCEPT !.op = "rewind"]
    /\ UNCHANGED <<alive, inner, options, f_ty, ALLOCATION_LIMIT, CUSTOM_RESOLVERS, written>>

InitWrite ==
    /\ alive = FALSE
    /\ inner = NoReader
    /\ options = None
    /\ f_ty = None
    /\ ALLOCATION_LIMIT = DEFAULT_ALLOCATION_LIMIT
    /\ CUSTOM_RESOLVERS = <<[id |-> "a", guesses |-> TRUE]>>
    /\ \E d \in WriteFiles : file = [data |-> d, pos |-> 0]
    /\ written = 0
    /\ last = NoOp

NextWrite ==
    \/ \E tag \in Tags : WriteId3v2(tag)
    \/ Rewind

SpecWrite == InitWrite /\ [][NextWrite]_vars

--------------------------------------------------------------------------
(* Claims about the writer *)

WriteDone == last.op = "write_id3v2"

\* the length of the ID3v2 block a file starts with, 0 when it starts with none
OldBlockLen(data) ==
    IF Len(data) >= 10 /\ SubSeq(data, 1, 3) = ID3
    THEN 10 + (data[7] * 128 * 128 * 128 + data[8] * 128 * 128 + data[9] * 128 + data[10])
         + (IF data[6] % 32 >= 16 THEN 10 ELSE 0)
    ELSE 0

\* C10: for a file detected as MP3, APE or AAC and a tag with at least one
\* frame, write_id3v2 succeeds and leaves the new ID3v2 block at offset 0,
\* followed by the bytes that followed the old block (all of them when the
\* file had none).
C10_BlockSplicedInFront ==
    (/\ WriteDone
     /\ last.ret \in {Some(Mpeg), Some(Ape), Some(Aac)}
     /\ last.tag.frames # <<>>)
    => /\ last.result = "Ok"
       /\ last.block # <<>>
       /\ file.data = last.block
                      \o SubSeq(last.file0.data, OldBlockLen(last.file0.data) + 1,
                                Len(last.file0.data))

\* C11: for a file whose detected type is not MP3, APE, WAV or AIFF, or whose
\* type is not detected at all, write_id3v2 returns UnsupportedTag and leaves
\* the file's bytes, length and stream position as they were at entry.
C11_OtherTypesRefused ==
    (/\ WriteDone
     /\ last.ret \notin {Some(Mpeg), Some(Ape), Some(Wav), Some(Aiff)})
    => /\ last.result = "UnsupportedTag"
       /\ file.data = last.file0.data
       /\ Len(file.data) = Len(last.file0.data)
       /\ file.pos = last.file0.pos

\* a FLAC file refused, and a file of no detectable type refused
C11_Witness ==
    /\ WriteDone
    /\ last.ret \in {Some(Flac), None}
    /\ last.tag.frames # <<>>
    /\ last.file0.data # <<>>
    /\ last.result = "UnsupportedTag"

\* the block ends with ten bytes that start with "3DI"
EndsWithFooter(block) ==
    /\ Len(block) >= 20
    /\ SubSeq(block, Len(block) - 9, Len(block) - 7) = FOOTER_ID

\* header flag bit 0x10
FooterBit(block) == (block[6] \div 16) % 2 = 1

\* C12 as stated: the block handed to the chunk writer for a WAV or AIFF file
\* has no footer whatever the tag's footer flag was; for MP3 and APE a footer
\* is emitted exactly when the tag's footer flag is set.
C12_FooterExactlyWhenFlagged ==
    WriteDone =>
        /\ last.ret \in {Some(Wav), Some(Aiff)} =>
               /\ ~EndsWithFooter(last.block)
               /\ last.block # <<>> => ~FooterBit(last.block)
        /\ last.ret \in {Some(Mpeg), Some(Ape)} =>
               (EndsWithFooter(last.block) <=> last.tag.flags.footer)

\* C12 as amended: the same, the MP3 and APE half for a tag with at least one
\* frame; a tag with no frames gives no block, so no footer, flag or no flag.
C12_FooterWhenFlaggedAndFramed ==
    WriteDone =>
        /\ last.ret \in {Some(Wav), Some(Aiff)} =>
               /\ ~EndsWithFooter(last.block)
               /\ last.block # <<>> => ~FooterBit(last.block)
        /\ last.ret \in {Some(Mpeg), Some(Ape)} =>
               /\ EndsWithFooter(last.block)
                      <=> (last.tag.flags.footer /\ last.tag.frames # <<>>)
               /\ last.block # <<>> => (FooterBit(last.block) <=> last.tag.flags.footer)

\* a tag with its footer flag set written to a WAV file: a block without footer
C12_Witness ==
    /\ WriteDone
    /\ last.ret = Some(Wav)
    /\ last.tag.flags.footer
    /\ last.block # <<>>
    /\ ~EndsWithFooter(last.block)
    /\ ~FooterBit(last.block)

\* the outer size field of a RIFF or FORM file holds the file's length less 8
\* in the given byte order
OuterSizeIn(data, order) ==
    /\ Len(data) >= 12
    /\ SubSeq(data, 5, 8) = u32_bytes(Len(data) - 8, order)

\* C13: the byte order of the chunk writer follows from the detected type
\* alone: little-endian for WAV, big-endian for AIFF, and the outer size of the
\* file written is in that order.
C13_ByteOrderByType ==
    WriteDone =>
        /\ last.ret = Some(Wav) =>
               /\ last.order = "LittleEndian"
               /\ last.block # <<>> => OuterSizeIn(file.data, "LittleEndian")
        /\ last.ret = Some(Aiff) =>
               /\ last.order = "BigEndian"
               /\ last.block # <<>> => OuterSizeIn(file.data, "BigEndian")
        /\ last.order = "LittleEndian" => last.ret = Some(Wav)
        /\ last.order = "BigEndian" => last.ret = Some(Aiff)

\* an AIFF file that held an ID3 chunk, written anew with a big-endian FORM size
C13_Witness ==
    /\ WriteDone
    /\ last.ret = Some(Aiff)
    /\ last.block # <<>>
    /\ Len(last.file0.data) > 22
    /\ OuterSizeIn(file.data, "BigEndian")
    /\ ~OuterSizeIn(file.data, "LittleEndian")

\* C14: a footer that create_tag emits is the last 10 bytes of the block: "3DI"
\* and then bytes 3..9 of the block's header as they stand once the size is
\* filled in (version, flags, synchsafe size).
C14_FooterMirrorsHeader ==
    (WriteDone /\ last.footer /\ last.block # <<>>) =>
        LET block == last.block
            n == Len(block)
        IN  /\ n >= 20
            /\ SubSeq(block, 1, 3) = ID3
            /\ SubSeq(block, n - 9, n) = FOOTER_ID \o SubSeq(block, 4, 10)
            /\ SubSeq(block, n - 9, n - 4) = FOOTER_ID \o <<4, 0, block[6]>>
            /\ SubSeq(block, n - 3, n) # <<0, 0, 0, 0>>

\* a footer behind an extended header and a frame, the experimental bit set
C14_Witness ==
    /\ WriteDone
    /\ last.footer
    /\ last.tag.flags.crc
    /\ last.tag.flags.experimental
    /\ last.block # <<>>
    /\ EndsWithFooter(last.block)
    /\ last.block[Len(last.block) - 4] = 112

\* C16: a block emitted for a tag with crc set has header bit 0x40 set and an
\* extended header of 6 bytes (size 6, one flag byte, no CRC bytes), and the crc
\* flag can be read back from the extended header's flags.
C16_CrcFlagRoundTrips ==
    (WriteDone /\ last.tag.flags.crc /\ last.block # <<>>) =>
        /\ (last.block[6] \div 64) % 2 = 1
        /\ SubSeq(last.block, 11, 15) = synch_bytes(6) \o <<1>>
        /\ unsynch(SubSeq(last.block, 7, 10)) + 10 + 6
               + (IF last.footer THEN 10 ELSE 0) = Len(last.block)
        /\ parsed_crc_flag(last.block)

\* C18: in every non-empty block of create_tag, whatever the footer,
\* experimental and crc flags, the synchsafe size in header bytes 6..9 is the
\* number of bytes between the 10-byte header and the footer (or the end of the
\* block), so that a skip of 10 + size bytes from the start of the block lands
\* right behind the tag body.
C18_SizeCoversBody ==
    (WriteDone /\ last.block # <<>>) =>
        LET size == unsynch(SubSeq(last.block, 7, 10))
            body_end == Len(last.block) - (IF last.footer THEN 10 ELSE 0)
        IN  /\ size = body_end - 10
            /\ position_after_id3_block(0, size) = body_end

==========================================================================
